---- MODULE Spec2Model ----
(***************************************************************************)
(* scripts/prepare_data/run.py: the dictionary builder                     *)
(* (prepare_dictionary_from_umls), the loader (process_bigbio_dataset)     *)
(* and the mention transformation (_transform_pages).                      *)
(*                                                                         *)
(* Strings that the code cuts or strips (texts, contexts, mentions) are    *)
(* sequences of one-character strings.  Strings that the code only         *)
(* concatenates (descriptions, mention ids) are sequences of the pieces    *)
(* concatenated.  A Python dict is a function; an Optional is a set with   *)
(* at most one element.                                                    *)
(***************************************************************************)
EXTENDS Integers, Sequences, FiniteSets, TLC

VARIABLES
    pc,               \* position in the program
    umls_df,          \* all_disambiguated.parquet: rows CUI, Title, GROUP, Entity
    agg_df,           \* prepare_dictionary_from_umls: the aggregated frame
    records,          \* prepare_dictionary_from_umls: the nested dict (umls_info_encoder.pkl)
    dictionary,       \* prepare_dictionary_from_umls: the returned flat list
    umls_info,        \* _transform_pages: group -> cui -> {title, description}
    cui_to_groups,    \* _transform_pages: cui -> list of groups
    cat_to_group,     \* _transform_pages: CATEGORY -> GROUP
    sem_to_group,     \* _transform_pages: SEM_CODE -> GROUP
    corrected_code,   \* _transform_pages: Optional[dict]
    pages,            \* the pages not yet iterated
    npages,           \* number of pages iterated so far
    page,             \* loop variable of the outer loop
    todo,             \* the entities of the page not yet iterated
    document_id,
    all_text,
    entity_id,
    entity,           \* loop variable of the inner loop
    cui,
    group,
    outcome,          \* which branch the last iteration of the inner loop left by
    blink_mentions,
    presub_entity_id, \* the same call with no correction map on the
    presub_mentions   \*   collection whose ids were substituted beforehand

vars == <<pc, umls_df, agg_df, records, dictionary, umls_info, cui_to_groups,
          cat_to_group, sem_to_group, corrected_code, pages, npages, page, todo,
          document_id, all_text, entity_id, entity, cui, group, outcome,
          blink_mentions, presub_entity_id, presub_mentions>>

(***************************************************************************)
(* Bounds of the model.                                                    *)
(***************************************************************************)
MaxRows == 2
MaxSemRows == 2
MaxPages == 2
MaxEntities == 2
MaxPassages == 2
MaxOffset == 3

(***************************************************************************)
(* Generic helpers.                                                        *)
(***************************************************************************)
Range(s) == {s[i] : i \in DOMAIN s}

Max(S) == CHOOSE x \in S : \A y \in S : y <= x

Min2(a, b) == IF a <= b THEN a ELSE b

SeqsUpTo(S, n) == UNION {[1..k -> S] : k \in 0..n}

\* every listing of the finite set S, each element once
Orderings(S) == {s \in [1..Cardinality(S) -> S] : Range(s) = S}

\* dict.get(key, default)
Get(d, key, default) == IF key \in DOMAIN d THEN d[key] ELSE default

EmptyDict == [k \in {} |-> {}]

\* sep.join(parts) on sequences of pieces
RECURSIVE Join(_, _)
Join(parts, sep) ==
    IF parts = <<>> THEN <<>>
    ELSE IF Len(parts) = 1 THEN Head(parts)
    ELSE Head(parts) \o sep \o Join(Tail(parts), sep)

(***************************************************************************)
(* Universes the inputs are drawn from.                                    *)
(***************************************************************************)
CUIs == {"C1", "C2"}
Titles == {"Flu", "Influenza"}
Labels == {"Viral", "Infectious"}
Groups == {"Disease", "Symptom"}
AllGroups == {"Disease", "Symptom", "Procedure"}

\* the order polars sorts the strings of the model in
SortOrder == <<"C1", "C2", "Disease", "Procedure", "Symptom", "Unknown">>

Rank(x) == CHOOSE i \in DOMAIN SortOrder : SortOrder[i] = x

(***************************************************************************)
(* prepare_dictionary_from_umls                                            *)
(***************************************************************************)
Triples(df) == {<<df[i].CUI, df[i].Title, df[i].GROUP>> : i \in DOMAIN df}

LabelsOf(df, t) ==
    {df[i].Entity : i \in {j \in DOMAIN df : <<df[j].CUI, df[j].Title, df[j].GROUP>> = t}}

\* .sort("GROUP", "CUI"): rows that tie on both keys come in any order
SortedByGroupCui(rows) ==
    \A i, j \in DOMAIN rows :
        i < j =>
            \/ Rank(rows[i][3]) < Rank(rows[j][3])
            \/ rows[i][3] = rows[j][3] /\ Rank(rows[i][1]) <= Rank(rows[j][1])

\* group_by(...).agg(pl.col("Entity").unique()).sort("GROUP", "CUI"): unique()
\* keeps no order (maintain_order is off), so each list of labels is any listing
\* of the distinct labels of its group
GroupByAgg(df) ==
    LET T == Triples(df)
        orders == {o \in Orderings(T) : SortedByGroupCui(o)}
        lists == {f \in [T -> UNION {Orderings(LabelsOf(df, t)) : t \in T}] :
                     \A t \in T : f[t] \in Orderings(LabelsOf(df, t))}
    IN  {[i \in DOMAIN o |->
            [CUI |-> o[i][1], Title |-> o[i][2], GROUP |-> o[i][3], Entity |-> f[o[i]]]]
         : o \in orders, f \in lists}

\* Title + " ( " + GROUP + " : " + Entity.list.join(" ; ") + " )"
Description(title, grp, labels) ==
    <<title, " ( ", grp, " : ">> \o Join([i \in DOMAIN labels |-> <<labels[i]>>], <<" ; ">>) \o <<" )">>

WithDescription(df) ==
    [i \in DOMAIN df |->
        [CUI |-> df[i].CUI, Title |-> df[i].Title, GROUP |-> df[i].GROUP,
         description |-> Description(df[i].Title, df[i].GROUP, df[i].Entity)]]

\* records[row["GROUP"]][row["CUI"]] = {...} over the rows in order: the last
\* row of a (GROUP, CUI) stays
NestedRecords(df) ==
    LET gs == {df[i].GROUP : i \in DOMAIN df}
        cs(g) == {df[i].CUI : i \in {j \in DOMAIN df : df[j].GROUP = g}}
        last(g, c) == Max({i \in DOMAIN df : df[i].GROUP = g /\ df[i].CUI = c})
    IN  [g \in gs |->
            [c \in cs(g) |->
                [title |-> df[last(g, c)].Title, description |-> df[last(g, c)].description]]]

\* umls_df.rename(rename_map).to_dicts()
FlatRecords(df) ==
    [i \in DOMAIN df |->
        [cui |-> df[i].CUI, title |-> df[i].Title,
         description |-> df[i].description, type |-> df[i].GROUP]]

\* umls_df.group_by("CUI").agg([pl.col("GROUP").unique()]): again unique() keeps no order
CuiToGroups(df) ==
    LET cs == {df[i].CUI : i \in DOMAIN df}
        gs(c) == {df[i].GROUP : i \in {j \in DOMAIN df : df[j].CUI = c}}
    IN  {f \in [cs -> UNION {Orderings(gs(c)) : c \in cs}] :
            \A c \in cs : f[c] \in Orderings(gs(c))}

(***************************************************************************)
(* _transform_pages: the pure parts                                        *)
(***************************************************************************)
Whitespace == {" ", "\t", "\n"}

RECURSIVE LStrip(_)
LStrip(s) == IF s # <<>> /\ Head(s) \in Whitespace THEN LStrip(Tail(s)) ELSE s

RECURSIVE RStrip(_)
RStrip(s) ==
    IF s # <<>> /\ s[Len(s)] \in Whitespace THEN RStrip(SubSeq(s, 1, Len(s) - 1)) ELSE s

\* str.strip()
Strip(s) == RStrip(LStrip(s))

\* s[:n] and s[n:] for n >= 0
Before(s, n) == SubSeq(s, 1, Min2(n, Len(s)))

From(s, n) == SubSeq(s, Min2(n, Len(s)) + 1, Len(s))

\* " ".join(parts) on texts
JoinSpace(parts) == Join(parts, <<" ">>)

\* {row["CATEGORY"]: row["GROUP"] for row in ...}: the last row of a key stays
CatToGroup(semantic_info) ==
    [k \in {semantic_info[i].CATEGORY : i \in DOMAIN semantic_info} |->
        semantic_info[Max({i \in DOMAIN semantic_info : semantic_info[i].CATEGORY = k})].GROUP]

SemToGroup(semantic_info) ==
    [k \in {semantic_info[i].SEM_CODE : i \in DOMAIN semantic_info} |->
        semantic_info[Max({i \in DOMAIN semantic_info : semantic_info[i].SEM_CODE = k})].GROUP]

\* " ".join([passage["text"][0] for passage in page.get("passages", [])])
AllText(pg) == JoinSpace([i \in DOMAIN pg.passages |-> pg.passages[i].text[1]])

\* a variant that follows the correction map a second time
CorrectedCuiTwice(db_id, cc) ==
    LET once == IF \E m \in cc : db_id \in DOMAIN m
                THEN (CHOOSE m \in cc : TRUE)[db_id]
                ELSE db_id
    IN  IF \E m \in cc : once \in DOMAIN m
        THEN (CHOOSE m \in cc : TRUE)[once]
        ELSE once

\* if corrected_code and cui in corrected_code: cui = corrected_code[cui]
CorrectedCui(db_id, cc) ==
    IF \E m \in cc : DOMAIN m # {} /\ db_id \in DOMAIN m
    THEN (CHOOSE m \in cc : TRUE)[db_id]
    ELSE db_id

\* a variant that asks the semantic-type codes before the category codes
TypeGroupSemFirst(entity_type, cat, sem) ==
    IF entity_type \in Range(cat) THEN entity_type
    ELSE IF entity_type \in DOMAIN sem THEN sem[entity_type]
    ELSE IF entity_type \in DOMAIN cat THEN cat[entity_type]
    ELSE "Unknown"

\* the if/elif chain on entity_type
TypeGroup(entity_type, cat, sem) ==
    IF entity_type \in Range(cat) THEN entity_type
    ELSE IF entity_type \in DOMAIN cat THEN cat[entity_type]
    ELSE IF entity_type \in DOMAIN sem THEN sem[entity_type]
    ELSE "Unknown"

\* a variant that trusts the raw type whenever it resolves to a group
ResolveGroupTypeFirst(entity_type, groups, cat, sem) ==
    LET g == TypeGroup(entity_type, cat, sem)
    IN  IF g = "Unknown" /\ groups # <<>> THEN groups[1] ELSE g

\* a variant that never overrides the type-derived group
ResolveGroupNoFallback(entity_type, groups, cat, sem) ==
    IF Len(groups) = 1 THEN groups[1] ELSE TypeGroup(entity_type, cat, sem)

\* "Determine group"
ResolveGroup(entity_type, groups, cat, sem) ==
    IF Len(groups) = 1 THEN groups[1]
    ELSE LET g == TypeGroup(entity_type, cat, sem)
         IN  IF g \notin Range(groups) /\ groups # <<>> THEN groups[1] ELSE g

\* a variant without the skip of the group "Unknown"
VerdictNoUnknownSkip(grp, c, info) ==
    IF grp \notin DOMAIN info THEN "no_group"
    ELSE IF c \notin DOMAIN info[grp] THEN "no_cui_in_group"
    ELSE "emitted"

\* the three skips after the group is determined, else the record is emitted
Verdict(grp, c, info) ==
    IF grp = "Unknown" THEN "unknown"
    ELSE IF grp \notin DOMAIN info THEN "no_group"
    ELSE IF c \notin DOMAIN info[grp] THEN "no_cui_in_group"
    ELSE "emitted"

StartIndex(offsets) == IF offsets # <<>> /\ offsets[1] # <<>> THEN offsets[1][1] ELSE 0

\* a variant that takes the end of the first offset
EndIndexFirst(offsets) == IF offsets # <<>> /\ offsets[1] # <<>> THEN offsets[1][2] ELSE 0

EndIndex(offsets) ==
    IF offsets # <<>> /\ offsets[Len(offsets)] # <<>> THEN offsets[Len(offsets)][2] ELSE 0

ContextLeft(text, offsets) == Strip(Before(text, StartIndex(offsets)))

ContextRight(text, offsets) == Strip(From(text, EndIndex(offsets)))

\* a variant that advances the counter on every entity with a reference
NextEntityIdAlways(eid, t) == IF t.outcome = "no_cui" THEN eid ELSE eid + 1

\* entity_id += 1 next to the append; every continue leaves entity_id alone
NextEntityId(eid, t) == eid + Len(t.emit)

\* f"{document_id}.{entity_id}"
MentionId(doc, eid) == <<doc, ".", eid>>

Mention(ent, doc, text, eid, grp, c, info) ==
    [mention |-> Strip(JoinSpace(ent.text)),
     mention_id |-> MentionId(doc, eid),
     context_left |-> ContextLeft(text, ent.offsets),
     context_right |-> ContextRight(text, ent.offsets),
     context_doc_id |-> doc,
     type |-> grp,
     label_id |-> c,
     label |-> info[grp][c].description,
     label_title |-> info[grp][c].title]

\* one iteration of the inner loop: the branch it leaves by, the locals it
\* sets and the record it appends, if any
Transform(ent, cc, info, index, cat, sem, doc, text, eid) ==
    IF ent.normalized = <<>>
    THEN [outcome |-> "no_cui", cui |-> "", group |-> "", emit |-> <<>>]
    ELSE LET c == CorrectedCui(ent.normalized[1].db_id, cc)
             g == ResolveGroup(ent.type, Get(index, c, <<>>), cat, sem)
             o == Verdict(g, c, info)
         IN  [outcome |-> o, cui |-> c, group |-> g,
              emit |-> IF o = "emitted"
                       THEN <<Mention(ent, doc, text, eid, g, c, info)>>
                       ELSE <<>>]

\* the collection with every first normalized id substituted beforehand
Presubstituted(ent, cc) ==
    IF ent.normalized = <<>> \/ cc = {} THEN ent
    ELSE LET m == CHOOSE x \in cc : TRUE
             old == ent.normalized[1].db_id
         IN  IF old \in DOMAIN m
             THEN [ent EXCEPT !.normalized[1].db_id = m[old]]
             ELSE ent

(***************************************************************************)
(* Actions of prepare_dictionary_from_umls and process_bigbio_dataset      *)
(***************************************************************************)
loopVars == <<pages, npages, page, todo, document_id, all_text, entity_id, entity,
              cui, group, outcome, blink_mentions, presub_entity_id, presub_mentions>>

tableVars == <<umls_info, cui_to_groups, cat_to_group, sem_to_group>>

\* group_by / agg / sort, the description column, drop("Entity")
Aggregate ==
    /\ pc = "aggregate"
    /\ \E df \in GroupByAgg(umls_df) : agg_df' = WithDescription(df)
    /\ pc' = "records"
    /\ UNCHANGED <<umls_df, records, dictionary, corrected_code, tableVars, loopVars>>

\* the nested dict, pickled to umls_info_encoder.pkl
BuildRecords ==
    /\ pc = "records"
    /\ records' = NestedRecords(agg_df)
    /\ pc' = "rename"
    /\ UNCHANGED <<umls_df, agg_df, dictionary, corrected_code, tableVars, loopVars>>

\* the renamed rows, returned and written to dictionary.pickle
ReturnDictionary ==
    /\ pc = "rename"
    /\ dictionary' = FlatRecords(agg_df)
    /\ pc' = "dict_done"
    /\ UNCHANGED <<umls_df, agg_df, records, corrected_code, tableVars, loopVars>>

\* process_bigbio_dataset up to the call of _transform_pages, and the two
\* mappings _transform_pages computes before its loop; semantic_info.parquet
\* is read here
LoadTables(semantic_tables) ==
    /\ pc = "dict_done"
    /\ cui_to_groups' \in CuiToGroups(umls_df)
    /\ umls_info' = records
    /\ \E semantic_info \in semantic_tables :
          /\ cat_to_group' = CatToGroup(semantic_info)
          /\ sem_to_group' = SemToGroup(semantic_info)
    /\ pc' = "page"
    /\ UNCHANGED <<umls_df, agg_df, records, dictionary, corrected_code, loopVars>>

(***************************************************************************)
(* Actions of _transform_pages                                             *)
(***************************************************************************)
\* the head of the outer loop, for the page the iteration yields
BeginPage(pg) ==
    /\ page' = pg
    /\ npages' = npages + 1
    /\ document_id' = pg.document_id
    /\ all_text' = AllText(pg)
    /\ entity_id' = 1
    /\ presub_entity_id' = 1
    /\ todo' = pg.entities
    /\ pc' = "entity"
    /\ UNCHANGED <<umls_df, agg_df, records, dictionary, corrected_code, tableVars,
                   entity, cui, group, outcome, blink_mentions, presub_mentions>>

\* for page in pages, over a list
StartPage ==
    /\ pc = "page"
    /\ pages # <<>>
    /\ pages' = Tail(pages)
    /\ BeginPage(Head(pages))

\* for page in pages, over an iterable that produces its pages on demand
StreamPage(source) ==
    /\ pc = "page"
    /\ pages = <<>>
    /\ npages < MaxPages
    /\ pages' = pages
    /\ \E pg \in source : BeginPage(pg)

\* one iteration of the inner loop
ProcessEntity ==
    /\ pc = "entity"
    /\ todo # <<>>
    /\ LET ent == Head(todo)
           t == Transform(ent, corrected_code, umls_info, cui_to_groups, cat_to_group,
                          sem_to_group, document_id, all_text, entity_id)
           r == Transform(Presubstituted(ent, corrected_code), {}, umls_info,
                          cui_to_groups, cat_to_group, sem_to_group, document_id,
                          all_text, presub_entity_id)
       IN  /\ entity' = ent
           /\ todo' = Tail(todo)
           /\ outcome' = t.outcome
           /\ cui' = IF t.outcome = "no_cui" THEN cui ELSE t.cui
           /\ group' = IF t.outcome = "no_cui" THEN group ELSE t.group
           /\ blink_mentions' = blink_mentions \o t.emit
           /\ entity_id' = NextEntityId(entity_id, t)
           /\ presub_mentions' = presub_mentions \o r.emit
           /\ presub_entity_id' = NextEntityId(presub_entity_id, r)
    /\ UNCHANGED <<pc, umls_df, agg_df, records, dictionary, corrected_code, tableVars,
                   pages, npages, page, document_id, all_text>>

\* the inner loop is exhausted
EndPage ==
    /\ pc = "entity"
    /\ todo = <<>>
    /\ pc' = "page"
    /\ UNCHANGED <<umls_df, agg_df, records, dictionary, corrected_code, tableVars,
                   loopVars>>

\* the outer loop is exhausted: return blink_mentions
Return ==
    /\ pc = "page"
    /\ pages = <<>>
    /\ pc' = "done"
    /\ UNCHANGED <<umls_df, agg_df, records, dictionary, corrected_code, tableVars,
                   loopVars>>

(***************************************************************************)
(* Inputs                                                                  *)
(***************************************************************************)
Entity(normalized, type, offsets, text) ==
    [normalized |-> normalized, type |-> type, offsets |-> offsets, text |-> text]

Refs(ids) == [i \in DOMAIN ids |-> [db_id |-> ids[i]]]

\* an entity with the text "a" at offset 0
Plain(ids, type) == Entity(Refs(ids), type, << <<0, 1>> >>, << <<"a">> >>)

Page(doc, passages, entities) ==
    [document_id |-> doc, passages |-> passages, entities |-> entities]

OnePassage == << [text |-> << <<"a">> >>] >>

NoPage == Page("", <<>>, <<>>)

NoEntity == Entity(<<>>, "", <<>>, <<>>)

DocIds == <<"d1", "d2", "d3", "d4">>

ConceptTitle(c) == IF c = "C1" THEN "Flu" ELSE "Cold"

ConceptEntry(g, c) ==
    [title |-> ConceptTitle(c), description |-> Description(ConceptTitle(c), g, <<"Viral">>)]

\* every concept in every group
FullInfo == [g \in AllGroups |-> [c \in CUIs |-> ConceptEntry(g, c)]]

\* group -> cui -> entry, for any groups among gs and any concepts in each
Infos(gs) ==
    LET perGroup == {[c \in S |-> 0] : S \in SUBSET CUIs}
    IN  UNION {{[g \in G |-> [c \in DOMAIN f[g] |-> ConceptEntry(g, c)]] :
                   f \in [G -> perGroup]} : G \in SUBSET gs}

\* cui -> list of distinct groups among gs, for any concepts among cs
Indexes(cs, gs) ==
    LET lists == UNION {Orderings(G) : G \in (SUBSET gs) \ {{}}}
    IN  UNION {[S -> lists] : S \in SUBSET cs}

SemRows(cats, sems, gs) ==
    {[CATEGORY |-> c, SEM_CODE |-> s, GROUP |-> g] : c \in cats, s \in sems, g \in gs}

\* "Symptom" is also a category code and "DISO" also a semantic-type code, so
\* that the order of the if/elif chain shows
SemTables == SeqsUpTo(SemRows({"DISO", "Symptom"}, {"T047", "DISO"}, AllGroups), MaxSemRows)

RawTypes == {"Disease", "Symptom", "DISO", "T047", "XX"}

SemRef == << [CATEGORY |-> "DISO", SEM_CODE |-> "T047", GROUP |-> "Symptom"] >>

\* None, or a dict from some concepts to concepts
Corrections == {{}} \cup {{m} : m \in UNION {[S -> CUIs] : S \in SUBSET CUIs}}

\* the state on entry of the loop of _transform_pages
LoopEntry(info, index, semantic_info, cc, ps) ==
    /\ pc = "page"
    /\ umls_df = <<>>
    /\ agg_df = <<>>
    /\ records = EmptyDict
    /\ dictionary = <<>>
    /\ umls_info = info
    /\ cui_to_groups = index
    /\ cat_to_group = CatToGroup(semantic_info)
    /\ sem_to_group = SemToGroup(semantic_info)
    /\ corrected_code = cc
    /\ pages = ps
    /\ npages = 0
    /\ page = NoPage
    /\ todo = <<>>
    /\ document_id = ""
    /\ all_text = <<>>
    /\ entity_id = 0
    /\ entity = NoEntity
    /\ cui = ""
    /\ group = ""
    /\ outcome = "none"
    /\ blink_mentions = <<>>
    /\ presub_entity_id = 0
    /\ presub_mentions = <<>>

LoopNext == StartPage \/ ProcessEntity \/ EndPage \/ Return

(***************************************************************************)
(* SpecResolve: _transform_pages on one entity of concept C1, for every    *)
(* resolver table, every index entry of C1 and every raw type.             *)
(***************************************************************************)
InitResolve ==
    \E semantic_info \in SemTables, index \in Indexes({"C1"}, AllGroups), type \in RawTypes :
        LoopEntry(FullInfo, index, semantic_info, {},
                  << Page("d1", OnePassage, << Plain(<<"C1">>, type) >>) >>)

SpecResolve == InitResolve /\ [][LoopNext]_vars

(***************************************************************************)
(* SpecArb: _transform_pages on one page, for every umls_info and every    *)
(* cui_to_groups, whether they agree or not.                               *)
(***************************************************************************)
ArbEntities ==
    {Plain(<<>>, "XX")} \cup {Plain(<<c>>, type) : c \in CUIs, type \in {"Symptom", "XX"}}

InitArb ==
    \E info \in Infos({"Disease", "Unknown"}), index \in Indexes(CUIs, Groups),
       es \in SeqsUpTo(ArbEntities, MaxEntities) :
        LoopEntry(info, index, SemRef, {}, << Page("d1", OnePassage, es) >>)

SpecArb == InitArb /\ [][LoopNext]_vars

(***************************************************************************)
(* SpecCorr: _transform_pages on one page, for every correction map and    *)
(* every cui_to_groups.                                                    *)
(***************************************************************************)
CorrEntities == {Plain(ids, "XX") : ids \in SeqsUpTo(CUIs, 2)}

InitCorr ==
    \E cc \in Corrections, index \in Indexes(CUIs, Groups),
       es \in SeqsUpTo(CorrEntities, MaxEntities) :
        LoopEntry(FullInfo, index, SemRef, cc, << Page("d1", OnePassage, es) >>)

SpecCorr == InitCorr /\ [][LoopNext]_vars

(***************************************************************************)
(* SpecCount: _transform_pages on a stream of documents whose entities     *)
(* leave the loop body by each of its five ways.                           *)
(***************************************************************************)
CountInfo == [g \in {"Disease"} |-> [c \in {"C1"} |-> ConceptEntry(g, c)]]

CountIndex == [c \in {"C1"} |-> <<"Disease">>]

CountEntities ==
    {Plain(<<>>, "XX"),             \* no normalized reference
     Plain(<<"C1">>, "XX"),         \* emitted
     Plain(<<"C2">>, "XX"),         \* group "Unknown"
     Plain(<<"C2">>, "Symptom"),    \* group not in umls_info
     Plain(<<"C2">>, "Disease")}    \* concept not in umls_info[group]

CountSemantic ==
    << [CATEGORY |-> "DISO", SEM_CODE |-> "T047", GROUP |-> "Symptom"],
       [CATEGORY |-> "ANAT", SEM_CODE |-> "T023", GROUP |-> "Disease"] >>

\* the documents of a collection have distinct ids
CountPages ==
    {Page(DocIds[npages + 1], OnePassage, es) : es \in SeqsUpTo(CountEntities, MaxEntities)}

InitCount == LoopEntry(CountInfo, CountIndex, CountSemantic, {}, <<>>)

NextCount == StreamPage(CountPages) \/ ProcessEntity \/ EndPage \/ Return

SpecCount == InitCount /\ [][NextCount]_vars

(***************************************************************************)
(* SpecText: _transform_pages on one page with one entity, for the texts   *)
(* of the passages and the offsets of the entity.                          *)
(***************************************************************************)
PassageTexts ==
    {<< <<"a">> >>, << <<" ", "a">> >>, << <<"a", " ">> >>, << <<>> >>,
     << <<"a">>, <<"b">> >>}

Spans == (0..MaxOffset) \X (0..MaxOffset)

\* no span, one span, or two spans in order
OffsetLists ==
    {<<>>} \cup {<<sp>> : sp \in Spans} \cup
    {<<a, b>> : a \in {sp \in Spans : sp[1] <= sp[2]},
                b \in {sp \in Spans : sp[1] <= sp[2]}}

TextInfo == [g \in {"Disease"} |-> [c \in {"C1"} |-> ConceptEntry(g, c)]]

InitText ==
    \E ps \in SeqsUpTo({[text |-> t] : t \in PassageTexts}, MaxPassages),
       offsets \in OffsetLists :
        LoopEntry(TextInfo, [c \in {"C1"} |-> <<"Disease">>], SemRef, {},
                  << Page("d1", ps,
                          << Entity(Refs(<<"C1">>), "XX", offsets, << <<" ", "a">>, <<"b">> >>) >>) >>)

SpecText == InitText /\ [][LoopNext]_vars

(***************************************************************************)
(* SpecDict: prepare_dictionary_from_umls on every concept table.          *)
(***************************************************************************)
ConceptRows(cs, ts, gs, ls) ==
    {[CUI |-> c, Title |-> t, GROUP |-> g, Entity |-> l] :
        c \in cs, t \in ts, g \in gs, l \in ls}

\* the state when run() starts
ProgramEntry(df, cc, ps) ==
    /\ pc = "aggregate"
    /\ umls_df = df
    /\ agg_df = <<>>
    /\ records = EmptyDict
    /\ dictionary = <<>>
    /\ umls_info = EmptyDict
    /\ cui_to_groups = EmptyDict
    /\ cat_to_group = EmptyDict
    /\ sem_to_group = EmptyDict
    /\ corrected_code = cc
    /\ pages = ps
    /\ npages = 0
    /\ page = NoPage
    /\ todo = <<>>
    /\ document_id = ""
    /\ all_text = <<>>
    /\ entity_id = 0
    /\ entity = NoEntity
    /\ cui = ""
    /\ group = ""
    /\ outcome = "none"
    /\ blink_mentions = <<>>
    /\ presub_entity_id = 0
    /\ presub_mentions = <<>>

InitDict ==
    \E df \in SeqsUpTo(ConceptRows(CUIs, Titles, Groups, Labels), MaxRows) :
        ProgramEntry(df, {}, <<>>)

NextDict == Aggregate \/ BuildRecords \/ ReturnDictionary

SpecDict == InitDict /\ [][NextDict]_vars

(***************************************************************************)
(* Spec: run() for one corpus: the dictionary, then the tables built from  *)
(* the same concept table, then _transform_pages on one entity.            *)
(***************************************************************************)
RunSemTables ==
    SeqsUpTo(SemRows({"DISO"}, {"T047"}, AllGroups), MaxSemRows)

RunEntities ==
    {Plain(<<>>, "XX")} \cup {Plain(<<c>>, type) : c \in CUIs, type \in {"Symptom", "DISO", "XX"}}

RunCorrections == {{}, {[c \in {"C1"} |-> "C2"]}, {[c \in {"C2"} |-> "C1"]}}

Init ==
    \E df \in SeqsUpTo(ConceptRows(CUIs, {"Flu"}, Groups \cup {"Unknown"}, {"Viral"}), MaxRows),
       cc \in RunCorrections, ent \in RunEntities :
        ProgramEntry(df, cc, << Page("d1", OnePassage, <<ent>>) >>)

Next ==
    \/ Aggregate
    \/ BuildRecords
    \/ ReturnDictionary
    \/ LoadTables(RunSemTables)
    \/ StartPage
    \/ ProcessEntity
    \/ EndPage
    \/ Return

Spec == Init /\ [][Next]_vars

(***************************************************************************)
(* Properties                                                              *)
(***************************************************************************)
\* the inner loop has handled an entity that has a normalized reference
Processed == outcome # "none" /\ entity.normalized # <<>>

\* that entity's first-reference concept id, corrected
FirstId ==
    LET old == entity.normalized[1].db_id
    IN  IF \E m \in corrected_code : old \in DOMAIN m
        THEN (CHOOSE m \in corrected_code : TRUE)[old]
        ELSE old

\* its candidate groups in the concept-group index
Candidates == IF FirstId \in DOMAIN cui_to_groups THEN cui_to_groups[FirstId] ELSE <<>>

LastRecord == blink_mentions[Len(blink_mentions)]

\* the group the raw type stands for: itself if it is a group name, else its
\* category mapping, else its semantic-type mapping, else "Unknown"
TypeDerived ==
    LET names == {cat_to_group[k] : k \in DOMAIN cat_to_group}
    IN  CASE entity.type \in names -> entity.type
          [] entity.type \notin names /\ entity.type \in DOMAIN cat_to_group
                -> cat_to_group[entity.type]
          [] entity.type \notin names /\ entity.type \notin DOMAIN cat_to_group
                /\ entity.type \in DOMAIN sem_to_group
                -> sem_to_group[entity.type]
          [] OTHER -> "Unknown"

\* C1: an entity whose corrected first-reference concept has exactly one
\* candidate group is resolved to that group, and a record emitted for it has
\* that group as its type, whatever the raw type and the resolver tables
C1_SingleCandidateWins ==
    (Processed /\ Len(Candidates) = 1) =>
        /\ group = Candidates[1]
        /\ outcome = "emitted" => LastRecord.type = Candidates[1]

\* a record was emitted for a concept with one candidate group although the
\* raw type is the name of another group
C1_Witness ==
    /\ Processed
    /\ Len(Candidates) = 1
    /\ outcome = "emitted"
    /\ entity.type \in {cat_to_group[k] : k \in DOMAIN cat_to_group}
    /\ entity.type # Candidates[1]
    /\ LastRecord.type = Candidates[1]

\* C2: with two or more candidate groups the resolved group is the
\* type-derived group when it is a candidate and the first candidate
\* otherwise, hence always a candidate
C2_AmbiguousConcept ==
    (Processed /\ Len(Candidates) >= 2) =>
        /\ group = IF TypeDerived \in Range(Candidates) THEN TypeDerived ELSE Candidates[1]
        /\ group \in Range(Candidates)

\* candidates Disease, Symptom and a category code that maps to Procedure:
\* the first candidate, Disease, is taken
C2_Witness ==
    /\ Processed
    /\ Candidates = <<"Disease", "Symptom">>
    /\ entity.type \in DOMAIN cat_to_group
    /\ TypeDerived = "Procedure"
    /\ group = "Disease"
    /\ outcome = "emitted"

RecordsOf(doc) == SelectSeq(blink_mentions, LAMBDA r : r.context_doc_id = doc)

\* C3: the mention ids of a document's records are document.1, document.2,
\* ... in output order, and the counter is one more than the number of the
\* current document's records
C3_ContiguousMentionIds ==
    /\ \A d \in Range(DocIds) :
          \A i \in DOMAIN RecordsOf(d) : RecordsOf(d)[i].mention_id = <<d, ".", i>>
    /\ pc = "entity" => entity_id = Len(RecordsOf(document_id)) + 1

\* the first document has two records; in the second the first entity, which
\* has a reference, was skipped and the second emitted as number 1
C3_Witness ==
    /\ npages = 2
    /\ Len(RecordsOf(DocIds[1])) = 2
    /\ Len(page.entities) = 2
    /\ todo = <<>>
    /\ page.entities[1].normalized # <<>>
    /\ Len(RecordsOf(DocIds[2])) = 1
    /\ outcome = "emitted"
    /\ LastRecord.mention_id = <<DocIds[2], ".", 1>>

\* C4: the call with the correction map yields the records that the call
\* without a map yields on the collection substituted beforehand
C4_CorrectionCommutes == blink_mentions = presub_mentions

\* a record was emitted under a substituted id that is itself a key of the map
C4_Witness ==
    /\ Processed
    /\ outcome = "emitted"
    /\ cui # entity.normalized[1].db_id
    /\ \E m \in corrected_code : cui \in DOMAIN m /\ m[cui] # cui
    /\ LastRecord.label_id = cui

\* C5: every record's type is not "Unknown" and is a key of umls_info, its
\* label_id a key of umls_info[type], its label and label_title the entry's
\* description and title; an entity that fails a lookup is skipped and the
\* loop goes on
C5_RecordsResolve ==
    /\ \A i \in DOMAIN blink_mentions :
          LET r == blink_mentions[i]
          IN  /\ r.type # "Unknown"
              /\ r.type \in DOMAIN umls_info
              /\ r.label_id \in DOMAIN umls_info[r.type]
              /\ r.label = umls_info[r.type][r.label_id].description
              /\ r.label_title = umls_info[r.type][r.label_id].title
    /\ Processed =>
          /\ outcome = "emitted" <=>
                /\ group # "Unknown"
                /\ group \in DOMAIN umls_info
                /\ cui \in DOMAIN umls_info[group]
    /\ todo # <<>> => pc = "entity"

\* the first entity of the page failed a lookup and the second was emitted
C5_Witness ==
    /\ Len(page.entities) = 2
    /\ todo = <<>>
    /\ page.entities[1].normalized # <<>>
    /\ Len(blink_mentions) = 1
    /\ outcome = "emitted"
    /\ LastRecord.mention_id = <<document_id, ".", 1>>

FirstStart == IF entity.offsets = <<>> THEN 0 ELSE entity.offsets[1][1]

LastEnd == IF entity.offsets = <<>> THEN 0 ELSE entity.offsets[Len(entity.offsets)][2]

Blank(s) == \A i \in DOMAIN s : s[i] \in Whitespace

Trimmed(s) == s = <<>> \/ (s[1] \notin Whitespace /\ s[Len(s)] \notin Whitespace)

\* C6: with 0 <= start <= end <= len(full text), the full text is blanks,
\* context_left, blanks, the region from start to end, blanks, context_right,
\* blanks, the region starting at start, and neither context begins or ends
\* with a blank
C6_ContextsReconstruct ==
    (outcome = "emitted" /\ 0 <= FirstStart /\ FirstStart <= LastEnd /\ LastEnd <= Len(all_text)) =>
        LET n == Len(all_text)
            left == LastRecord.context_left
            right == LastRecord.context_right
        IN  /\ Trimmed(left)
            /\ Trimmed(right)
            /\ \E a, b \in 0..FirstStart, c, d \in 0..(n - LastEnd) :
                  /\ a + Len(left) + b = FirstStart
                  /\ c + Len(right) + d = n - LastEnd
                  /\ Blank(SubSeq(all_text, 1, a))
                  /\ Blank(SubSeq(all_text, FirstStart - b + 1, FirstStart))
                  /\ Blank(SubSeq(all_text, LastEnd + 1, LastEnd + c))
                  /\ Blank(SubSeq(all_text, n - d + 1, n))
                  /\ all_text = SubSeq(all_text, 1, a) \o left
                                  \o SubSeq(all_text, FirstStart - b + 1, FirstStart)
                                  \o SubSeq(all_text, FirstStart + 1, LastEnd)
                                  \o SubSeq(all_text, LastEnd + 1, LastEnd + c) \o right
                                  \o SubSeq(all_text, n - d + 1, n)

\* an entity with two offsets, blanks trimmed from a context that is not empty
C6_Witness ==
    /\ outcome = "emitted"
    /\ Len(entity.offsets) = 2
    /\ entity.offsets[1][2] # LastEnd
    /\ 0 <= FirstStart /\ FirstStart < LastEnd /\ LastEnd <= Len(all_text)
    /\ LastRecord.context_left # <<>>
    /\ LastRecord.context_right # <<>>
    /\ Len(LastRecord.context_left) < FirstStart

RECURSIVE Flatten(_)
Flatten(ss) == IF ss = <<>> THEN <<>> ELSE Head(ss) \o Flatten(Tail(ss))

\* C8: the full text is every text fragment of every passage, in order,
\* joined by single spaces
C8_FullTextHasEveryFragment ==
    pc \in {"entity", "done"} =>
        all_text = JoinSpace(Flatten([i \in DOMAIN page.passages |-> page.passages[i].text]))

\* the labels of the rows of a (concept, title, group), in the order they
\* are first met
RECURSIVE FirstMet(_, _, _)
FirstMet(df, t, seen) ==
    IF df = <<>> THEN <<>>
    ELSE LET r == Head(df)
             mine == <<r.CUI, r.Title, r.GROUP>> = t /\ r.Entity \notin seen
         IN  (IF mine THEN <<r.Entity>> ELSE <<>>)
                 \o FirstMet(Tail(df), t, IF mine THEN seen \cup {r.Entity} ELSE seen)

\* C7: the description of each (concept, title, group) is
\* "title ( group : l1 ; l2 ; ... )" with its labels in the order first met
C7_LabelsInFirstMetOrder ==
    pc = "dict_done" =>
        \A i \in DOMAIN dictionary :
            LET r == dictionary[i]
            IN  r.description =
                    <<r.title, " ( ", r.type, " : ">>
                        \o Join([k \in DOMAIN FirstMet(umls_df, <<r.cui, r.title, r.type>>, {})
                                    |-> <<FirstMet(umls_df, <<r.cui, r.title, r.type>>, {})[k]>>],
                                <<" ; ">>)
                        \o <<" )">>

\* C9: the flat dictionary has one record per (group, concept), and each
\* record's title and description are those of the nested dict
C9_OneEntryPerGroupAndConcept ==
    pc = "dict_done" =>
        /\ \A i, j \in DOMAIN dictionary :
              (dictionary[i].type = dictionary[j].type /\ dictionary[i].cui = dictionary[j].cui)
                  => i = j
        /\ \A i \in DOMAIN dictionary :
              LET r == dictionary[i]
              IN  /\ r.title = records[r.type][r.cui].title
                  /\ r.description = records[r.type][r.cui].description

\* C10: with both tables built from one concept table that has no group
\* "Unknown", an entity is emitted exactly if it has a normalized reference
\* whose corrected first id occurs in the concept table
C10_EmittedIffConceptKnown ==
    (outcome # "none" /\ \A i \in DOMAIN umls_df : umls_df[i].GROUP # "Unknown") =>
        (outcome = "emitted" <=>
            /\ entity.normalized # <<>>
            /\ FirstId \in {umls_df[i].CUI : i \in DOMAIN umls_df})

\* emitted although the raw type stands for a group that is no candidate
C10_Witness ==
    /\ Processed
    /\ \A i \in DOMAIN umls_df : umls_df[i].GROUP # "Unknown"
    /\ Len(Candidates) = 2
    /\ TypeDerived = "Procedure"
    /\ outcome = "emitted"
    /\ LastRecord.type = Candidates[1]

====
